---- MODULE Spec2Model ----
(***************************************************************************)
(* Model of src/earthquakeApp.py: one run of the dashboard script is       *)
(* fetch_earthquake_data, then process_earthquake_data, then the sort and  *)
(* the rendering of the table.  Python objects are tagged values, the      *)
(* remote service is the environment that picks the outcome of the one     *)
(* outbound request.                                                       *)
(***************************************************************************)
EXTENDS Integers, Sequences, FiniteSets

VARIABLES
    pc,             \* position of the script
    min_magnitude,  \* slider value, in tenths (line 117)
    event_limit,    \* selectbox value (line 125)
    sent,           \* outbound requests issued by this run, in order
    response,       \* the response object of requests.get (line 32)
    data,           \* the local `data` of fetch_earthquake_data (line 42)
    exc,            \* the exception raised inside the try block, if any
    ui,             \* elements emitted by this run, in order
    raw_data,       \* line 134
    records,        \* the local `records` of process_earthquake_data
    idx,            \* number of features the for-loop has consumed
    df,             \* line 135 / 138
    crash,          \* the exception that reached the top of the script
    shown,          \* the table the front end currently displays
    previous        \* the table the front end displayed when this run began

vars == <<pc, min_magnitude, event_limit, sent, response, data, exc, ui,
          raw_data, records, idx, df, crash, shown, previous>>

(***************************************************************************)
(* Bounds of the model.                                                    *)
(***************************************************************************)
\* longest `features` sequence handed to process_earthquake_data directly
MaxFeatures == 2
\* longest `features` sequence in a response body of the remote service
MaxCatalog == 2

(***************************************************************************)
(* Python values.  A str is its sequence of characters, a list its         *)
(* sequence of items, a dict the function from its keys to its values.     *)
(***************************************************************************)
NoneV == [t |-> "none", v |-> 0]
Unbound == [t |-> "unbound", v |-> 0]
NaT == [t |-> "NaT", v |-> 0]
Num(n) == [t |-> "num", v |-> n]
Str(s) == [t |-> "str", v |-> s]
List(s) == [t |-> "list", v |-> s]
Dict(f) == [t |-> "dict", v |-> f]
Timestamp(sec, ms) == [t |-> "timestamp", v |-> <<sec, ms>>]

EmptyDict == Dict(<<>>)
FEATURES == <<"f", "e", "a", "t", "u", "r", "e", "s">>

\* dict.get(key, default)
Get(d, key, default) == IF key \in DOMAIN d.v THEN d.v[key] ELSE default

\* bool(x) of a Python value
Truthy(x) ==
    CASE x.t = "none" -> FALSE
      [] x.t = "num" -> x.v # 0
      [] x.t \in {"str", "list"} -> Len(x.v) > 0
      [] x.t = "dict" -> DOMAIN x.v # {}
      [] OTHER -> TRUE

IsSubstring(pat, s) ==
    \E i \in 1..(Len(s) - Len(pat) + 1) : SubSeq(s, i, i + Len(pat) - 1) = pat

\* `"features" in x`: [exc, value]
Contains(x) ==
    CASE x.t = "dict" -> [exc |-> "none", value |-> "features" \in DOMAIN x.v]
      [] x.t = "list" ->
           [exc |-> "none", value |-> \E i \in 1..Len(x.v) : x.v[i] = Str(FEATURES)]
      [] x.t = "str" -> [exc |-> "none", value |-> IsSubstring(FEATURES, x.v)]
      [] OTHER -> [exc |-> "TypeError", value |-> FALSE]

(***************************************************************************)
(* The HTTP response.  The body text is leading whitespace followed by     *)
(* nothing, by text that is no JSON document, or by a JSON document.       *)
(***************************************************************************)
NoText == [k |-> "empty", val |-> NoneV]
Garbage == [k |-> "garbage", val |-> NoneV]
Json(v) == [k |-> "json", val |-> v]
Text(ws, doc) == [ws |-> ws, doc |-> doc]

\* str.strip()
Strip(text) == [ws |-> 0, doc |-> text.doc]
\* `not text`
TextIsEmpty(text) == text.ws = 0 /\ text.doc.k = "empty"

\* response.json(): [exc, value]
JsonLoads(text) ==
    IF text.doc.k = "json"
    THEN [exc |-> "none", value |-> text.doc.val]
    ELSE [exc |-> "JSONDecodeError", value |-> Unbound]

NoResponse == [status |-> 0, text |-> Text(0, NoText)]

\* response.raise_for_status(): the class it raises, or "none"
RaiseForStatus(status) ==
    IF 400 <= status /\ status < 600 THEN "HTTPError" ELSE "none"

(***************************************************************************)
(* Exceptions and the except clauses of fetch_earthquake_data.             *)
(***************************************************************************)
NoExc == [cls |-> "none", msg |-> ""]
Raise(cls, msg) == [cls |-> cls, msg |-> msg]

\* the classes an exception of class cls is an instance of
Mro(cls) ==
    CASE cls = "ConnectTimeout" ->
           {"ConnectTimeout", "ConnectionError", "Timeout", "RequestException", "Exception"}
      [] cls = "ReadTimeout" -> {"ReadTimeout", "Timeout", "RequestException", "Exception"}
      [] cls = "ConnectionError" -> {"ConnectionError", "RequestException", "Exception"}
      [] cls = "HTTPError" -> {"HTTPError", "RequestException", "Exception"}
      [] cls = "JSONDecodeError" ->
           {"JSONDecodeError", "RequestException", "ValueError", "Exception"}
      [] OTHER -> {cls, "Exception"}

ExceptClauses == <<"Timeout", "HTTPError", "JSONDecodeError", "Exception">>

\* the first except clause that matches e
ExceptClause(e) ==
    LET hits == {i \in 1..Len(ExceptClauses) : ExceptClauses[i] \in Mro(e.cls)}
    IN  ExceptClauses[CHOOSE i \in hits : \A j \in hits : i <= j]

Element(kind, clause, msg) == [kind |-> kind, clause |-> clause, msg |-> msg]

\* the st.error call of the clause that handles e
Diagnostic(e) ==
    LET c == ExceptClause(e)
    IN  CASE c = "Timeout" ->
               Element("error", c, "Request timed out while contacting the earthquake API.")
          [] c = "HTTPError" -> Element("error", c, e.msg)
          [] c = "JSONDecodeError" ->
               Element("error", c, "Failed to decode API response as JSON.")
          [] OTHER -> Element("error", c, e.msg)

HandlerEmitsTwice(e) == <<Diagnostic(e), Diagnostic(e)>>

\* what the handling clause sends to the page
HandlerEmits(e) == <<Diagnostic(e)>>

EmptyPayload == Dict([features |-> List(<<>>)])

HandlerReturnsFallthrough(e) ==
    IF ExceptClause(e) = "Exception" THEN NoneV ELSE EmptyPayload

\* what the handling clause returns
HandlerReturns(e) == EmptyPayload

(***************************************************************************)
(* The request of line 32.                                                 *)
(***************************************************************************)
REQUEST_TIMEOUT == 10

Request(minmag, limit) ==
    [format |-> "geojson", orderby |-> "time", minmagnitude |-> minmag,
     limit |-> limit, timeout |-> REQUEST_TIMEOUT]

SendTwice(log, minmag, limit) ==
    log \o <<Request(minmag, limit), Request(minmag, limit)>>

\* requests.get puts one request on the wire
Send(log, minmag, limit) == Append(log, Request(minmag, limit))

(***************************************************************************)
(* process_earthquake_data.                                                *)
(***************************************************************************)
COLUMNS ==
    <<"place", "magnitude", "time", "longitude", "latitude", "depth_km",
      "tsunami_flag", "felt_reports">>

EmptyFrameNoColumns == [columns |-> <<>>, rows |-> <<>>]

\* pd.DataFrame(columns=[...]) of lines 73-84
EmptyFrame == [columns |-> COLUMNS, rows |-> <<>>]

\* pd.DataFrame(records) of line 104: the columns are the keys of the dicts
DataFrame(recs) ==
    [columns |-> IF recs = <<>> THEN <<>> ELSE COLUMNS, rows |-> recs]

\* data["features"]: [exc, value]
Subscript(x) ==
    CASE x.t = "dict" ->
           IF "features" \in DOMAIN x.v
           THEN [exc |-> "none", value |-> x.v["features"]]
           ELSE [exc |-> "KeyError", value |-> Unbound]
      [] OTHER -> [exc |-> "TypeError", value |-> Unbound]

\* len(x): [exc, value]
PyLen(x) ==
    CASE x.t \in {"list", "str"} -> [exc |-> "none", value |-> Len(x.v)]
      [] x.t = "dict" -> [exc |-> "none", value |-> Cardinality(DOMAIN x.v)]
      [] OTHER -> [exc |-> "TypeError", value |-> 0]

\* the condition of line 72, left to right with short circuit: [exc, value]
Guard(x) ==
    IF ~Truthy(x) THEN [exc |-> "none", value |-> TRUE]
    ELSE LET c == Contains(x) IN
      IF c.exc # "none" THEN [exc |-> c.exc, value |-> FALSE]
      ELSE IF ~c.value THEN [exc |-> "none", value |-> TRUE]
      ELSE LET f == Subscript(x) IN
        IF f.exc # "none" THEN [exc |-> f.exc, value |-> FALSE]
        ELSE LET n == PyLen(f.value) IN
          IF n.exc # "none" THEN [exc |-> n.exc, value |-> FALSE]
          ELSE [exc |-> "none", value |-> n.value = 0]

\* the items `for feature in x` visits (a list or a str, by PyLen above)
Iter(x) ==
    CASE x.t = "list" -> x.v
      [] x.t = "str" -> [i \in 1..Len(x.v) |-> Str(<<x.v[i]>>)]
      [] OTHER -> <<>>

\* x[i], i counted from 0: [exc, value]
Index(x, i) ==
    CASE x.t = "list" ->
           IF i < Len(x.v) THEN [exc |-> "none", value |-> x.v[i + 1]]
           ELSE [exc |-> "IndexError", value |-> Unbound]
      [] x.t = "str" ->
           IF i < Len(x.v) THEN [exc |-> "none", value |-> Str(<<x.v[i + 1]>>)]
           ELSE [exc |-> "IndexError", value |-> Unbound]
      [] x.t = "dict" -> [exc |-> "KeyError", value |-> Unbound]
      [] OTHER -> [exc |-> "TypeError", value |-> Unbound]

\* pd.to_datetime(x, unit="ms", errors="coerce") for None, a number of
\* milliseconds, or a str that is no number
ToDatetime(x) ==
    CASE x.t = "none" -> NoneV
      [] x.t = "num" -> Timestamp(x.v \div 1000, x.v % 1000)
      [] OTHER -> NaT

\* the default of geometry.get("coordinates", ...), line 91
DefaultCoordinates == List(<<NoneV, NoneV, NoneV>>)

NoRow ==
    [place |-> Unbound, magnitude |-> Unbound, time |-> Unbound,
     longitude |-> Unbound, latitude |-> Unbound, depth_km |-> Unbound,
     tsunami_flag |-> Unbound, felt_reports |-> Unbound]

\* the body of the for-loop, lines 89-102: [exc, row]
MakeRecord(feature) ==
    IF feature.t # "dict" THEN [exc |-> "AttributeError", row |-> NoRow]
    ELSE LET properties == Get(feature, "properties", EmptyDict)
             geometry == Get(feature, "geometry", EmptyDict)
         IN
      IF geometry.t # "dict" THEN [exc |-> "AttributeError", row |-> NoRow]
      ELSE LET coordinates == Get(geometry, "coordinates", DefaultCoordinates) IN
        IF properties.t # "dict" THEN [exc |-> "AttributeError", row |-> NoRow]
        ELSE LET c0 == Index(coordinates, 0)
                 c1 == Index(coordinates, 1)
                 c2 == Index(coordinates, 2)
             IN
          IF c0.exc # "none" THEN [exc |-> c0.exc, row |-> NoRow]
          ELSE IF c1.exc # "none" THEN [exc |-> c1.exc, row |-> NoRow]
          ELSE IF c2.exc # "none" THEN [exc |-> c2.exc, row |-> NoRow]
          ELSE [exc |-> "none",
                row |-> [place |-> Get(properties, "place", NoneV),
                         magnitude |-> Get(properties, "mag", NoneV),
                         time |-> ToDatetime(Get(properties, "time", NoneV)),
                         longitude |-> c0.value,
                         latitude |-> c1.value,
                         depth_km |-> c2.value,
                         tsunami_flag |-> Get(properties, "tsunami", NoneV),
                         felt_reports |-> Get(properties, "felt", NoneV)]]

\* records.append(...), line 93
AppendRecord(recs, row) == Append(recs, row)

(***************************************************************************)
(* The sort of line 138 and the page, lines 143-229.                       *)
(***************************************************************************)
HasTime(row) == row.time.t = "timestamp"
Millis(row) == row.time.v[1] * 1000 + row.time.v[2]

\* a must come before b in descending order of time, missing times last
Before(a, b) ==
    \/ HasTime(a) /\ ~HasTime(b)
    \/ HasTime(a) /\ HasTime(b) /\ Millis(a) > Millis(b)

Permutations(n) ==
    {f \in [1..n -> 1..n] : \A i, j \in 1..n : f[i] = f[j] => i = j}

\* the frames df.sort_values("time", ascending=False) can return: the sort
\* is not stable, rows of equal time come in any order
SortValues(frame) ==
    LET n == Len(frame.rows) IN
    {[columns |-> frame.columns, rows |-> [i \in 1..n |-> frame.rows[f[i]]]] :
        f \in {g \in Permutations(n) :
                 \A i, j \in 1..n : i < j => ~Before(frame.rows[g[j]], frame.rows[g[i]])}}

NoTable == [columns |-> <<>>, rows |-> <<>>]

\* the elements lines 143-229 put on the page for a frame
Page(frame) ==
    (IF frame.rows # <<>>
     THEN <<Element("dataframe", "", "describe")>>
     ELSE <<Element("warning", "", "No earthquake data available for the selected filters.")>>)
    \o <<Element("metric", "", "Total Earthquake Events"),
         Element("metric", "", "Maximum Magnitude"),
         Element("metric", "", "Average Depth (km)"),
         Element("map", "", "")>>
    \o (IF frame.rows # <<>>
        THEN <<Element("chart", "", "histogram"), Element("chart", "", "line")>>
        ELSE <<>>)
    \o <<Element("dataframe", "", "table")>>

(***************************************************************************)
(* What the environment can supply.                                        *)
(***************************************************************************)
\* the slider, in tenths of a magnitude: its two ends and its default
MinMagnitudes == {0, 25, 80}
\* the options of the selectbox
EventLimits == {50, 100, 250, 500}

TransportFailures ==
    {Raise("ConnectTimeout", "connect timed out"),
     Raise("ReadTimeout", "read timed out"),
     Raise("ConnectionError", "connection refused")}

Statuses == {200, 404, 500}

\* a feature with the given properties and geometry; Unbound leaves the key out
Feature(p, g) ==
    Dict([k \in (IF p = Unbound THEN {} ELSE {"properties"})
                   \cup (IF g = Unbound THEN {} ELSE {"geometry"}) |->
             IF k = "properties" THEN p ELSE g])

PFull ==
    Dict([place |-> Str(<<"A">>), mag |-> Num(45), time |-> Num(1700),
          tsunami |-> Num(0), felt |-> Num(12)])
PPartial == Dict([place |-> Str(<<"B">>), time |-> Str(<<"x">>), felt |-> NoneV])
GTriple == Dict([coordinates |-> List(<<Num(-1224), Num(378), Num(105)>>)])
GHole == Dict([coordinates |-> List(<<Num(1), NoneV, Num(3)>>)])
GShort == Dict([coordinates |-> List(<<Num(1), Num(2)>>)])
GNull == Dict([coordinates |-> NoneV])

PropertiesShapes == {Unbound, NoneV, PFull, PPartial}
GeometryShapes == {Unbound, NoneV, EmptyDict, GNull, GShort, GTriple, GHole}
FeatureShapes == {Feature(p, g) : p \in PropertiesShapes, g \in GeometryShapes}

\* the features that occur in the bodies of the remote service
CatalogFeatures ==
    {Feature(PFull, GTriple), Feature(PPartial, Unbound), Feature(PFull, NoneV)}

SeqsUpTo(S, n) == UNION {[1..k -> S] : k \in 0..n}

JsonDocs ==
    {NoneV, Num(5), Str(FEATURES), Str(<<"o", "k">>), List(<<>>),
     List(<<Str(FEATURES)>>), EmptyDict, Dict([error |-> Str(<<"x">>)]),
     Dict([features |-> NoneV])}
    \cup {Dict([features |-> List(s)]) : s \in SeqsUpTo(CatalogFeatures, MaxCatalog)}

Texts ==
    {Text(0, NoText), Text(1, NoText), Text(0, Garbage), Text(1, Json(EmptyPayload))}
    \cup {Text(0, Json(d)) : d \in JsonDocs}

Responses == {[status |-> st, text |-> tx] : st \in Statuses, tx \in Texts}

\* the payloads process_earthquake_data is called with directly
NormalizerInputs ==
    {NoneV, Num(0), Num(5), Str(<<>>), Str(FEATURES), List(<<>>),
     List(<<Str(FEATURES)>>), List(<<Num(1)>>), EmptyDict,
     Dict([error |-> Str(<<"x">>)]), Dict([features |-> NoneV]),
     Dict([features |-> Num(5)]), Dict([features |-> Str(<<"a", "b">>)])}
    \cup {Dict([features |-> List(s)]) : s \in SeqsUpTo(FeatureShapes, MaxFeatures)}

(***************************************************************************)
(* One run of the script.                                                  *)
(***************************************************************************)
fetchLocals == <<sent, response, data, exc>>
processLocals == <<records, idx>>
controls == <<min_magnitude, event_limit>>

\* an exception reaches the top of the script: the run ends, the page shows it
Crashes(cls) ==
    /\ pc' = "crashed"
    /\ crash' = cls
    /\ ui' = Append(ui, Element("exception", cls, ""))
    /\ shown' = NoTable

\* the script starts (again): the widgets of lines 117-129 give their values
Run ==
    /\ pc \in {"idle", "rendered", "crashed"}
    /\ min_magnitude' \in MinMagnitudes
    /\ event_limit' \in EventLimits
    /\ sent' = <<>>
    /\ response' = NoResponse
    /\ data' = Unbound
    /\ exc' = NoExc
    /\ ui' = <<>>
    /\ raw_data' = Unbound
    /\ records' = <<>>
    /\ idx' = 0
    /\ df' = NoTable
    /\ crash' = "none"
    /\ previous' = shown
    /\ pc' = "fetch_get"
    /\ UNCHANGED shown

\* line 32
FetchGet ==
    /\ pc = "fetch_get"
    /\ sent' = Send(sent, min_magnitude, event_limit)
    /\ \/ \E e \in TransportFailures :
            /\ exc' = e
            /\ pc' = "fetch_except"
            /\ UNCHANGED response
       \/ \E r \in Responses :
            /\ response' = r
            /\ pc' = "fetch_status"
            /\ UNCHANGED exc
    /\ UNCHANGED <<controls, data, ui, raw_data, processLocals, df, crash, shown, previous>>

\* line 35
FetchStatus ==
    /\ pc = "fetch_status"
    /\ LET cls == RaiseForStatus(response.status) IN
         IF cls # "none"
         THEN exc' = Raise(cls, "status error") /\ pc' = "fetch_except"
         ELSE exc' = exc /\ pc' = "fetch_empty"
    /\ UNCHANGED <<controls, sent, response, data, ui, raw_data, processLocals, df,
                   crash, shown, previous>>

\* lines 38-39
FetchEmpty ==
    /\ pc = "fetch_empty"
    /\ IF TextIsEmpty(Strip(response.text))
       THEN /\ exc' = Raise("ValueError", "Empty response received from API")
            /\ pc' = "fetch_except"
       ELSE exc' = exc /\ pc' = "fetch_json"
    /\ UNCHANGED <<controls, sent, response, data, ui, raw_data, processLocals, df,
                   crash, shown, previous>>

\* line 42
FetchJson ==
    /\ pc = "fetch_json"
    /\ LET j == JsonLoads(response.text) IN
         IF j.exc # "none"
         THEN exc' = Raise(j.exc, "Expecting value") /\ pc' = "fetch_except" /\ data' = data
         ELSE exc' = exc /\ pc' = "fetch_check" /\ data' = j.value
    /\ UNCHANGED <<controls, sent, response, ui, raw_data, processLocals, df, crash,
                   shown, previous>>

\* lines 45-46
FetchCheck ==
    /\ pc = "fetch_check"
    /\ LET c == Contains(data) IN
         IF c.exc # "none"
         THEN exc' = Raise(c.exc, "argument is not iterable") /\ pc' = "fetch_except"
         ELSE IF ~c.value
         THEN /\ exc' = Raise("ValueError", "Unexpected API response structure")
              /\ pc' = "fetch_except"
         ELSE exc' = exc /\ pc' = "fetch_return"
    /\ UNCHANGED <<controls, sent, response, data, ui, raw_data, processLocals, df,
                   crash, shown, previous>>

\* line 48, and the assignment of line 134
FetchReturn ==
    /\ pc = "fetch_return"
    /\ raw_data' = data
    /\ pc' = "process_guard"
    /\ UNCHANGED <<controls, fetchLocals, ui, processLocals, df, crash, shown, previous>>

\* lines 50-64, and the assignment of line 134
FetchExcept ==
    /\ pc = "fetch_except"
    /\ ui' = ui \o HandlerEmits(exc)
    /\ raw_data' = HandlerReturns(exc)
    /\ pc' = "process_guard"
    /\ UNCHANGED <<controls, fetchLocals, processLocals, df, crash, shown, previous>>

\* lines 72-86
ProcessGuard ==
    /\ pc = "process_guard"
    /\ LET g == Guard(raw_data) IN
         IF g.exc # "none"
         THEN Crashes(g.exc) /\ UNCHANGED <<processLocals, df>>
         ELSE IF g.value
         THEN /\ df' = EmptyFrame
              /\ pc' = "sort"
              /\ UNCHANGED <<processLocals, ui, crash, shown>>
         ELSE /\ records' = <<>>
              /\ idx' = 0
              /\ pc' = "process_loop"
              /\ UNCHANGED <<df, ui, crash, shown>>
    /\ UNCHANGED <<controls, fetchLocals, raw_data, previous>>

\* the sequence the for-loop of line 88 walks
Features(payload) == Iter(Subscript(payload).value)

\* lines 88-102, one iteration
ProcessFeature ==
    /\ pc = "process_loop"
    /\ idx < Len(Features(raw_data))
    /\ LET r == MakeRecord(Features(raw_data)[idx + 1]) IN
         IF r.exc # "none"
         THEN Crashes(r.exc) /\ UNCHANGED <<processLocals, df>>
         ELSE /\ records' = AppendRecord(records, r.row)
              /\ idx' = idx + 1
              /\ UNCHANGED <<pc, df, ui, crash, shown>>
    /\ UNCHANGED <<controls, fetchLocals, raw_data, previous>>

\* line 104, and the assignment of line 135
ProcessReturn ==
    /\ pc = "process_loop"
    /\ idx = Len(Features(raw_data))
    /\ df' = DataFrame(records)
    /\ pc' = "sort"
    /\ UNCHANGED <<controls, fetchLocals, ui, raw_data, processLocals, crash, shown,
                   previous>>

\* line 138
Sort ==
    /\ pc = "sort"
    /\ IF \E i \in 1..Len(df.columns) : df.columns[i] = "time"
       THEN /\ \E f \in SortValues(df) : df' = f
            /\ pc' = "render"
            /\ UNCHANGED <<ui, crash, shown>>
       ELSE Crashes("KeyError") /\ UNCHANGED df
    /\ UNCHANGED <<controls, fetchLocals, raw_data, processLocals, previous>>

\* lines 143-229
Render ==
    /\ pc = "render"
    /\ ui' = ui \o Page(df)
    /\ shown' = df
    /\ pc' = "rendered"
    /\ UNCHANGED <<controls, fetchLocals, raw_data, processLocals, df, crash, previous>>

Init ==
    /\ pc = "idle"
    /\ min_magnitude = 25
    /\ event_limit = 100
    /\ sent = <<>>
    /\ response = NoResponse
    /\ data = Unbound
    /\ exc = NoExc
    /\ ui = <<>>
    /\ raw_data = Unbound
    /\ records = <<>>
    /\ idx = 0
    /\ df = NoTable
    /\ crash = "none"
    /\ shown = NoTable
    /\ previous = NoTable

Next ==
    \/ Run
    \/ FetchGet
    \/ FetchStatus
    \/ FetchEmpty
    \/ FetchJson
    \/ FetchCheck
    \/ FetchReturn
    \/ FetchExcept
    \/ ProcessGuard
    \/ ProcessFeature
    \/ ProcessReturn
    \/ Sort
    \/ Render

Spec == Init /\ [][Next]_vars

(***************************************************************************)
(* process_earthquake_data alone, called with any payload.                 *)
(***************************************************************************)
InitNormalize ==
    /\ pc = "process_guard"
    /\ min_magnitude = 25
    /\ event_limit = 100
    /\ sent = <<>>
    /\ response = NoResponse
    /\ data = Unbound
    /\ exc = NoExc
    /\ ui = <<>>
    /\ raw_data \in NormalizerInputs
    /\ records = <<>>
    /\ idx = 0
    /\ df = NoTable
    /\ crash = "none"
    /\ shown = NoTable
    /\ previous = NoTable

NextNormalize ==
    \/ ProcessGuard
    \/ ProcessFeature
    \/ ProcessReturn

SpecNormalize == InitNormalize /\ [][NextNormalize]_vars

(***************************************************************************)
(* Vocabulary of the properties.                                           *)
(***************************************************************************)
\* fetch_earthquake_data has returned in this run
Fetched == pc \in {"process_guard", "process_loop", "sort", "render", "rendered", "crashed"}
\* a statement of the try block raised, so an except clause ran
Failed == exc # NoExc
\* the st.error elements of this run
Diagnostics == SelectSeq(ui, LAMBDA e : e.kind = "error")
\* x is a mapping with a `features` key
HasFeaturesKey(x) == x.t = "dict" /\ "features" \in DOMAIN x.v
\* no response arrived: the transport failed
NoResponseArrived == response = NoResponse
\* process_earthquake_data has ended, by a return or by an exception
Ended == pc \in {"sort", "crashed"}
\* x is a mapping whose `features` is a list of feature mappings
IsCatalog(x) ==
    /\ HasFeaturesKey(x)
    /\ x.v["features"].t = "list"
    /\ \A i \in 1..Len(x.v["features"].v) : x.v["features"].v[i].t = "dict"
FeatureList(x) == x.v["features"].v
\* the feature carries geometry.coordinates with positions 0, 1 and 2
HasTriple(f) ==
    /\ "geometry" \in DOMAIN f.v
    /\ f.v["geometry"].t = "dict"
    /\ "coordinates" \in DOMAIN f.v["geometry"].v
    /\ f.v["geometry"].v["coordinates"].t = "list"
    /\ Len(f.v["geometry"].v["coordinates"].v) >= 3
Triple(f) == f.v["geometry"].v["coordinates"].v
AllAbsent(row) ==
    row.longitude = NoneV /\ row.latitude = NoneV /\ row.depth_km = NoneV

(***************************************************************************)
(* The fetcher.                                                            *)
(***************************************************************************)
\* C1: whatever the remote request does, what fetch_earthquake_data returns
\* is a mapping that has a `features` key.
C1_ReturnsMappingWithFeatures == Fetched => HasFeaturesKey(raw_data)

\* the response is one a check of the fetcher rejects: an error status, a
\* blank body, a body that is no JSON, or a JSON object without `features`
Rejected ==
    \/ response.status >= 400
    \/ TextIsEmpty(Strip(response.text))
    \/ response.text.doc.k = "garbage"
    \/ /\ response.text.doc.k = "json"
       /\ response.text.doc.val.t = "dict"
       /\ ~HasFeaturesKey(response.text.doc.val)

\* C3: whenever a check of the fetcher fails, the fetcher returns exactly the
\* canonical empty payload, and nothing of the response.
C3_FailureReturnsEmptyPayload ==
    (Fetched /\ (Failed \/ NoResponseArrived \/ Rejected)) => raw_data = EmptyPayload

\* C3 witness: an error status whose body holds features, and the fetcher has
\* returned the empty payload.
C3_Witness ==
    /\ Fetched
    /\ Failed
    /\ response.status = 404
    /\ response.text.doc.k = "json"
    /\ IsCatalog(response.text.doc.val)
    /\ Len(FeatureList(response.text.doc.val)) > 0
    /\ raw_data = EmptyPayload

\* C4: an invocation emits exactly one diagnostic when it ends on a failure
\* path, none when it returns the parsed response, and never two.
C4_OneDiagnosticOnFailure ==
    /\ Len(Diagnostics) <= 1
    /\ Fetched => /\ Failed => Len(Diagnostics) = 1
                  /\ ~Failed => (Len(Diagnostics) = 0 /\ raw_data = data /\ data # Unbound)

\* C4 witness: a failed run has been rendered, one diagnostic on the page.
C4_Witness == pc = "rendered" /\ Failed /\ Len(Diagnostics) = 1

\* the diagnostic the first failing check calls for: [n, clause, msg], n the
\* number of diagnostics, msg "" where the text is left open
Expected ==
    IF NoResponseArrived
    THEN IF exc.cls \in {"ConnectTimeout", "ReadTimeout"}
         THEN [n |-> 1, clause |-> "Timeout", msg |-> ""]
         ELSE [n |-> 1, clause |-> "Exception", msg |-> ""]
    ELSE IF response.status >= 400
    THEN [n |-> 1, clause |-> "HTTPError", msg |-> ""]
    ELSE IF TextIsEmpty(Strip(response.text))
    THEN [n |-> 1, clause |-> "Exception", msg |-> "Empty response received from API"]
    ELSE IF response.text.doc.k # "json"
    THEN [n |-> 1, clause |-> "JSONDecodeError", msg |-> ""]
    ELSE IF ~HasFeaturesKey(response.text.doc.val)
    THEN [n |-> 1, clause |-> "Exception", msg |-> "Unexpected API response structure"]
    ELSE [n |-> 0, clause |-> "", msg |-> ""]

\* C5: the checks run in the order transport, status, non-empty body, parse,
\* `features` key, and the one diagnostic is that of the first check that
\* fails; a parsed body without `features` gives the unexpected-structure one.
C5_DiagnosticOfFirstFailingCheck ==
    Fetched =>
        /\ Len(Diagnostics) = Expected.n
        /\ Expected.n = 1 =>
             /\ Diagnostics[1].clause = Expected.clause
             /\ Expected.msg # "" => Diagnostics[1].msg = Expected.msg

\* C9: each invocation issues exactly one outbound request, with the filter
\* of this run, on the success path and on every failure path.
C9_OneRequestPerInvocation ==
    IF pc \in {"idle", "fetch_get"}
    THEN sent = <<>>
    ELSE sent = <<Request(min_magnitude, event_limit)>>

\* C9 witness: a run whose request failed has come to its end with one request.
C9_Witness == pc = "rendered" /\ Failed /\ NoResponseArrived /\ Len(sent) = 1

\* C10: when the fetch fails the run does not crash, the diagnostic is the
\* first element of the page, and the table rendered after it has no rows and
\* the eight columns, whatever the page showed before.
C10_FailedFetchRendersEmptyTable ==
    (Fetched /\ Failed) =>
        /\ pc # "crashed"
        /\ ui # <<>> /\ ui[1].kind = "error"
        /\ pc = "rendered" =>
             /\ shown.rows = <<>>
             /\ shown.columns = COLUMNS
             /\ ui[Len(ui)] = Element("dataframe", "", "table")
             /\ Len(ui) > 1

\* C10 witness: the page showed rows before this run, the response of this run
\* held features under an error status, and the table now shown is empty.
C10_Witness ==
    /\ pc = "rendered"
    /\ Failed
    /\ previous.rows # <<>>
    /\ response.text.doc.k = "json"
    /\ IsCatalog(response.text.doc.val)
    /\ Len(FeatureList(response.text.doc.val)) > 0
    /\ shown.rows = <<>>
    /\ shown.columns = COLUMNS

(***************************************************************************)
(* The normalizer.                                                         *)
(***************************************************************************)
\* C2: process_earthquake_data never raises on a catalog, whatever of
\* properties, geometry, coordinates and its positions is missing or null.
C2_NeverRaises == IsCatalog(raw_data) => pc # "crashed"

\* C6: a catalog of N >= 1 features gives exactly N records, the i-th built
\* from the i-th feature.
C6_OneRecordPerFeatureInOrder ==
    (Ended /\ IsCatalog(raw_data) /\ Len(FeatureList(raw_data)) >= 1) =>
        /\ pc = "sort"
        /\ Len(df.rows) = Len(FeatureList(raw_data))
        /\ \A i \in 1..Len(df.rows) : df.rows[i] = MakeRecord(FeatureList(raw_data)[i]).row

\* the properties of the feature are a mapping
PropertiesPresent(f) == "properties" \in DOMAIN f.v /\ f.v["properties"].t = "dict"

\* C7: every feature without a coordinates triple gets a record whose
\* longitude, latitude and depth_km are all absent, and every other record
\* takes the three from positions 0, 1, 2 of the triple (stated for the
\* catalogs whose features all carry a properties mapping).
C7_CoordinatesAllOrNone ==
    (Ended /\ IsCatalog(raw_data) /\ \A i \in 1..Len(FeatureList(raw_data)) :
                                        PropertiesPresent(FeatureList(raw_data)[i])) =>
        /\ \A i \in 1..Len(FeatureList(raw_data)) :
              ~HasTriple(FeatureList(raw_data)[i]) =>
                  (i <= Len(df.rows) /\ AllAbsent(df.rows[i]))
        /\ \A i \in 1..Len(df.rows) :
              LET f == FeatureList(raw_data)[i] IN
              \/ AllAbsent(df.rows[i])
              \/ /\ HasTriple(f)
                 /\ df.rows[i].longitude = Triple(f)[1]
                 /\ df.rows[i].latitude = Triple(f)[2]
                 /\ df.rows[i].depth_km = Triple(f)[3]

\* the payload is null or malformed, lacks `features`, or has no features
Degenerate(x) ==
    \/ ~HasFeaturesKey(x)
    \/ x.v["features"].t # "list"
    \/ x.v["features"].v = <<>>

\* C8: a payload that is null or malformed, lacks `features`, or has an empty
\* `features` gives zero rows under the eight fixed columns.
C8_DegeneratePayloadGivesEmptyFrame ==
    (pc # "process_guard" /\ Degenerate(raw_data)) =>
        (pc = "sort" /\ df.rows = <<>> /\ df.columns = COLUMNS)

(***************************************************************************)
(* What holds of the normalizer whenever it does return.                   *)
(***************************************************************************)
\* the records built so far are those of the features consumed so far, in order
RecordsFollowFeatures ==
    pc \in {"process_loop", "sort"} /\ IsCatalog(raw_data) =>
        /\ Len(records) = idx
        /\ \A i \in 1..idx : records[i] = MakeRecord(FeatureList(raw_data)[i]).row
        /\ (pc = "sort" /\ FeatureList(raw_data) # <<>>) =>
              (df.rows = records /\ idx = Len(FeatureList(raw_data)))

\* no record ever holds a partial combination of coordinates
RecordsAllOrNone ==
    IsCatalog(raw_data) =>
        \A i \in 1..Len(records) :
            LET f == FeatureList(raw_data)[i] IN
            IF HasTriple(f)
            THEN /\ records[i].longitude = Triple(f)[1]
                 /\ records[i].latitude = Triple(f)[2]
                 /\ records[i].depth_km = Triple(f)[3]
            ELSE AllAbsent(records[i])

====
